---- MODULE Spec2Model ----
(***************************************************************************)
(* Model of src/main.py: the Cloud Function analyze_discovery_material_ce  *)
(* (folder policy, validation, transcription) and the audit logger gcs_log *)
(* that appends to the shared object logs/logs.txt under optimistic        *)
(* concurrency (if_generation_match).                                      *)
(*                                                                         *)
(* A file name is a sequence of tokens: "/" and "." stand for themselves,  *)
(* every other token is a run of characters holding neither.               *)
(***************************************************************************)
EXTENDS Integers, Sequences, FiniteSets, TLC

VARIABLES
    log_gen,            \* generation of logs/logs.txt in the store; 0 = the object is absent
    log_content,        \* content of logs/logs.txt: a sequence of entries
    committed,          \* history: initial content, then the entry of every accepted gcs_log upload, in order
    accepted,           \* history: one record per upload the store accepted
    obj_present,        \* obj_present[i]: the triggering object of invocation i is in its bucket
    artifacts,          \* derived objects in the output bucket (other than the log object)
    event,              \* event[i]: the CloudEvent of invocation i
    pc,                 \* pc[i]: position of invocation i
    verdict,            \* verdict[i]: what validate_file_helper returned (or that it raised)
    file_deleted,       \* file_deleted[i]: result of handle_new_file_or_change
    log_entry,          \* gcs_log local: the entry of the running call
    max_retries,        \* gcs_log parameter
    attempt,            \* gcs_log local: loop index
    current_generation, \* gcs_log local
    local_log,          \* content of LOCAL_LOG_PATH of invocation i
    cond,               \* gcs_log local: upload_kwargs.get("if_generation_match"), 0 = none
    ret,                \* where the running gcs_log call returns to
    log_calls,          \* history: the entries invocation i passed to gcs_log, in order
    calls,              \* history: calls[i] = the <<operation, outcome>> pairs of the store and service calls the stages of invocation i made
    trace               \* history: the kinds of local logger records invocation i emitted

vars == <<log_gen, log_content, committed, accepted, obj_present, artifacts, event, pc,
          verdict, file_deleted, log_entry, max_retries, attempt, current_generation,
          local_log, cond, ret, log_calls, calls, trace>>

storeVars == <<log_gen, log_content, committed, accepted>>
pipeVars == <<obj_present, artifacts, event, verdict, file_deleted, calls>>

\* ---------------------------------------------------------------- bounds

\* concurrent invocations of the function
NInv == 2
\* concurrent gcs_log calls of the append harness
NWriters == 3

\* default of gcs_log's max_retries
DefaultMaxRetries == 5

Procs == DOMAIN pc

\* ---------------------------------------------------------------- names

Range(s) == {s[k] : k \in 1..Len(s)}

Count(x, s) == Cardinality({k \in 1..Len(s) : s[k] = x})

IsPrefix(s, t) == Len(s) <= Len(t) /\ SubSeq(t, 1, Len(s)) = s

\* the last index of token c in p, 0 when there is none (str.rfind, 1-based)
rfind(p, c) ==
    LET hits == {k \in 1..Len(p) : p[k] = c}
    IN  IF hits = {} THEN 0 ELSE CHOOSE k \in hits : \A h \in hits : h <= k

\* str.lower on a token
lower_tok(t) ==
    CASE t = "MP3" -> "mp3"
      [] t = "WAV" -> "wav"
      [] OTHER -> t

lower(s) == [k \in 1..Len(s) |-> lower_tok(s[k])]

\* os.path.splitext: the extension starts at the last dot of the last path
\* component, unless only dots precede it there
splitext(p) ==
    LET sepIndex == rfind(p, "/")
        dotIndex == rfind(p, ".")
    IN  IF dotIndex > sepIndex
           /\ \E k \in (sepIndex + 1)..(dotIndex - 1) : p[k] # "."
        THEN <<SubSeq(p, 1, dotIndex - 1), SubSeq(p, dotIndex, Len(p))>>
        ELSE <<p, <<>> >>

get_file_extension(file_name) == lower(splitext(file_name)[2])

HasSlash(file_name) == \E k \in 1..Len(file_name) : file_name[k] = "/"

MediaExts == {<<".", "mp4">>, <<".", "mkv">>, <<".", "mp3">>, <<".", "wav">>, <<".", "m4a">>}
ImageExts == {<<".", "jpg">>, <<".", "jpeg">>, <<".", "png">>}
AudioExts == {<<".", "mp3">>, <<".", "wav">>, <<".", "flac">>, <<".", "m4a">>, <<".", "ogg">>}

\* f"{LOG_FOLDER}/{LOG_FILE_NAME}"
LogPath == <<"logs", "/", "logs", ".", "txt">>

\* f"{os.path.splitext(file_name)[0]}.txt"
processed_blob_name(file_name) == splitext(file_name)[1] \o <<".", "txt">>

FinalizedType == "google.cloud.storage.object.v1.finalized"

\* ---------------------------------------------------------------- gcs_log

\* log_entry = f"[{timestamp}] [{severity}]: {message}\n"; `by` stands for what
\* tells the entry of one call from another's (the call and its timestamp)
Entry(i, severity, kind, file_name, message) ==
    [by |-> i, sev |-> severity, kind |-> kind, name |-> file_name, msg |-> message]

SeedEntry == Entry(0, "INFO", "seed", <<>>, "")

\* upload_kwargs: if_generation_match is set only when current_generation > 0
UploadCond(g) == IF g > 0 THEN g ELSE 0

\* the store's answer to an upload: without a precondition it always writes,
\* with if_generation_match = c it writes only on the generation c
StoreAccepts(c, g) == c = 0 \/ c = g

\* a loop that runs one index too far: range(1, max_retries + 2)
LoopContinuesOneMore(a, mr) == a < mr + 1

\* `for attempt in range(1, max_retries + 1)`: after `continue` the loop goes on
\* while another index remains
LoopContinues(a, mr) == a < mr

\* a read step that leaves the entry out of the buffer
AppendLocallyDropped(content, entry) == content

\* the read step's buffer: the downloaded content followed by this call's entry
AppendLocally(content, entry) == Append(content, entry)

\* a read step that keeps what the local file held and writes after it
ReadBufferKept(old, content) == old \o content

\* what LOCAL_LOG_PATH holds after the read step: download_to_filename, and
\* open(LOCAL_LOG_PATH, "w") in the else branch, replace the file's content
ReadBuffer(old, content) == content

\* the logger.error that follows the try statement inside the loop body: it runs
\* only after a try block left by falling through, and the block is always left
\* by return (accepted upload, except Exception) or continue (PreconditionFailed)
AfterTry(exit) == IF exit = "fallthrough" THEN {"exhausted"} ELSE {}

\* the call gcs_log(...) made at position pc[i], returning to retpc
CallGcsLog(i, entry, retpc) ==
    /\ log_entry' = [log_entry EXCEPT ![i] = entry]
    /\ log_calls' = [log_calls EXCEPT ![i] = Append(@, entry)]
    /\ current_generation' = [current_generation EXCEPT ![i] = 0]
    /\ cond' = [cond EXCEPT ![i] = 0]
    /\ ret' = [ret EXCEPT ![i] = retpc]
    /\ IF max_retries[i] >= 1
       THEN /\ attempt' = [attempt EXCEPT ![i] = 1]
            /\ pc' = [pc EXCEPT ![i] = "log_exists"]
       ELSE /\ attempt' = [attempt EXCEPT ![i] = 0]
            /\ pc' = [pc EXCEPT ![i] = retpc]
    /\ UNCHANGED <<local_log, trace, max_retries>>

\* gcs_log returns to its caller: its locals are gone (LOCAL_LOG_PATH stays)
Return(i) ==
    /\ pc' = [pc EXCEPT ![i] = ret[i]]
    /\ ret' = [ret EXCEPT ![i] = "done"]
    /\ log_entry' = [log_entry EXCEPT ![i] = SeedEntry]
    /\ attempt' = [attempt EXCEPT ![i] = 0]
    /\ current_generation' = [current_generation EXCEPT ![i] = 0]
    /\ cond' = [cond EXCEPT ![i] = 0]
    /\ UNCHANGED <<max_retries, local_log, log_calls>>

\* an except branch that goes round the loop again
LogUnexpectedRetries(i) ==
    /\ trace' = [trace EXCEPT ![i] = @ \cup {"unexpected"}]
    /\ IF attempt[i] < max_retries[i]
       THEN /\ attempt' = [attempt EXCEPT ![i] = @ + 1]
            /\ pc' = [pc EXCEPT ![i] = "log_exists"]
            /\ UNCHANGED <<log_entry, max_retries, current_generation,
                           local_log, cond, ret, log_calls>>
       ELSE Return(i)
    /\ UNCHANGED <<storeVars, pipeVars>>

\* `except Exception`: logger.exception, return
LogUnexpected(i) ==
    /\ trace' = [trace EXCEPT ![i] = @ \cup {"unexpected"} \cup AfterTry("return")]
    /\ Return(i)
    /\ UNCHANGED <<storeVars, pipeVars>>

\* blob.exists(), and the else branch of the read step
LogExists(i) ==
    /\ pc[i] = "log_exists"
    /\ \/ /\ log_gen > 0
          /\ pc' = [pc EXCEPT ![i] = "log_reload"]
          /\ UNCHANGED <<storeVars, pipeVars, log_entry, max_retries, attempt,
                         current_generation, local_log, cond, ret, log_calls, trace>>
       \/ /\ log_gen = 0
          /\ current_generation' = [current_generation EXCEPT ![i] = 0]
          /\ local_log' = [local_log EXCEPT ![i] = AppendLocally(ReadBuffer(local_log[i], <<>>), log_entry[i])]
          /\ cond' = [cond EXCEPT ![i] = UploadCond(0)]
          /\ pc' = [pc EXCEPT ![i] = "log_upload"]
          /\ UNCHANGED <<storeVars, pipeVars, log_entry, max_retries, attempt, ret,
                         log_calls, trace>>
       \/ LogUnexpected(i)

\* blob.reload(); current_generation = blob.generation
LogReload(i) ==
    /\ pc[i] = "log_reload"
    /\ \/ /\ current_generation' = [current_generation EXCEPT ![i] = log_gen]
          /\ pc' = [pc EXCEPT ![i] = "log_download"]
          /\ UNCHANGED <<storeVars, pipeVars, log_entry, max_retries, attempt,
                         local_log, cond, ret, log_calls, trace>>
       \/ LogUnexpected(i)

\* blob.download_to_filename(LOCAL_LOG_PATH); append; build upload_kwargs
LogDownload(i) ==
    /\ pc[i] = "log_download"
    /\ \/ /\ local_log' = [local_log EXCEPT ![i] =
                    AppendLocally(ReadBuffer(local_log[i], log_content), log_entry[i])]
          /\ cond' = [cond EXCEPT ![i] = UploadCond(current_generation[i])]
          /\ pc' = [pc EXCEPT ![i] = "log_upload"]
          /\ UNCHANGED <<storeVars, pipeVars, log_entry, max_retries, attempt,
                         current_generation, ret, log_calls, trace>>
       \/ LogUnexpected(i)

\* blob.upload_from_filename(LOCAL_LOG_PATH, **upload_kwargs) and what follows it
LogUpload(i) ==
    /\ pc[i] = "log_upload"
    /\ \/ /\ StoreAccepts(cond[i], log_gen)
          /\ log_content' = local_log[i]
          /\ log_gen' = log_gen + 1
          /\ committed' = Append(committed, log_entry[i])
          /\ accepted' = accepted \cup
                {[by |-> i, entry |-> log_entry[i], cond |-> cond[i],
                  seen |-> current_generation[i], gen_at_write |-> log_gen,
                  before |-> log_content, after |-> local_log[i]]}
          /\ trace' = [trace EXCEPT ![i] = @ \cup {"appended"} \cup AfterTry("return")]
          /\ Return(i)
          /\ UNCHANGED pipeVars
       \/ /\ ~StoreAccepts(cond[i], log_gen)
          /\ trace' = [trace EXCEPT ![i] = @ \cup {"mismatch"} \cup AfterTry("continue")]
          /\ IF LoopContinues(attempt[i], max_retries[i])
             THEN /\ attempt' = [attempt EXCEPT ![i] = @ + 1]
                  /\ pc' = [pc EXCEPT ![i] = "log_exists"]
                  /\ UNCHANGED <<log_entry, max_retries, current_generation,
                                 local_log, cond, ret, log_calls>>
             \* the loop is over and the function ends
             ELSE Return(i)
          /\ UNCHANGED <<storeVars, pipeVars>>
       \/ LogUnexpected(i)

GcsLogStep(i) == LogExists(i) \/ LogReload(i) \/ LogDownload(i) \/ LogUpload(i)

\* ---------------------------------------------------------------- validate_file_helper

\* what the checker run on the downloaded file does: ffprobe (an exception of
\* subprocess.run, or its return code and stderr) or the parser of the file kind
ProbeOutcomes ==
    [exc : {"none", "TimeoutExpired", "FileNotFoundError"},
     returncode : {0, 1},
     stderr : {"", "warning"},
     parses : BOOLEAN]

Returned(valid, message) == [raised |-> FALSE, valid |-> valid, message |-> message]
Raised(exc) == [raised |-> TRUE, valid |-> FALSE, message |-> exc]

\* validate_file_helper(local_path, file_name); local_exists is
\* os.path.exists(local_path)
validate_file_helper(local_exists, file_name, o) ==
    LET ext == get_file_extension(file_name)
    IN  IF ext \in MediaExts
        THEN IF ~local_exists
             THEN Returned(FALSE, "File download failed")
             ELSE IF o.exc # "none"
                  \* only subprocess.CalledProcessError is caught
                  THEN Raised(o.exc)
                  ELSE IF o.returncode # 0 \/ o.stderr # ""
                       THEN Returned(FALSE, "Invalid or corrupted media")
                       ELSE Returned(TRUE, "passed integrity check")
        ELSE IF ext \in ImageExts
        THEN IF o.parses THEN Returned(TRUE, "Image file is valid")
                         ELSE Returned(FALSE, "Corrupted image file")
        ELSE IF ext = <<".", "docx">>
        THEN IF o.parses THEN Returned(TRUE, "DOCX file opened successfully")
                         ELSE Returned(FALSE, "Corrupted DOCX file")
        ELSE IF ext = <<".", "pdf">>
        THEN IF o.parses THEN Returned(TRUE, "PDF file opened successfully")
                         ELSE Returned(FALSE, "Corrupted or unreadable PDF")
        ELSE Returned(FALSE, "Unsupported file type")

\* ---------------------------------------------------------------- the function

Names ==
    {<<"report", ".", "pdf">>,
     <<"caseA", "/", "interview", ".", "wav">>,
     <<"caseA", "/", "photo", ".", "png">>,
     <<"caseA", "/", "notes", ".", "xyz">>,
     <<"caseA", "/", "talk", ".", "ogg">>,
     <<"caseA", "/", "song", ".", "MP3">>,
     <<"caseA", "/", "brief", ".", "docx">>,
     <<"caseA", "/", ".", "wav">>,
     <<"logs", "/", "logs", ".", "wav">>}

OtherType == "google.cloud.storage.object.v1.deleted"

Events ==
    [type : {FinalizedType}, name : Names]
        \cup {[type |-> OtherType, name |-> <<"caseA", "/", "interview", ".", "wav">>]}

\* the entries the stages pass to gcs_log
RootEntry(i) == Entry(i, "INFO", "Deleted disallowed file", event[i].name, "")
InvalidEntry(i, message) ==
    Entry(i, "ERROR", "Deleted corrupted or invalid file", event[i].name, message)
TranscribedEntry(i) == Entry(i, "INFO", "Transcribed", event[i].name, "")
SttFailedEntry(i, e) == Entry(i, "ERROR", "Speech-to-text failed", event[i].name, e)

\* what stands in the log object after a transcript was uploaded onto it
TranscriptOf(i) == Entry(i, "", "transcript", event[i].name, "")

Called(i, op, outcome) == calls' = [calls EXCEPT ![i] = @ \cup {<<op, outcome>>}]

logVars == <<log_entry, max_retries, attempt, current_generation, local_log, cond, ret,
             log_calls>>

\* a handler that runs the stages whatever the event type
DispatchAnyType(i) ==
    /\ pc[i] = "start"
    /\ pc' = [pc EXCEPT ![i] = "policy"]
    /\ UNCHANGED <<storeVars, pipeVars, logVars, trace>>

\* analyze_discovery_material_ce: the event type test
Dispatch(i) ==
    /\ pc[i] = "start"
    /\ pc' = [pc EXCEPT ![i] = IF event[i].type = FinalizedType THEN "policy" ELSE "done"]
    /\ UNCHANGED <<storeVars, pipeVars, logVars, trace>>

\* the folder test inverted
IsRootLevelInverted(file_name) == HasSlash(file_name)

\* the `"/" not in file_name` test of handle_new_file_or_change
IsRootLevel(file_name) == ~HasSlash(file_name)

\* handle_new_file_or_change, up to its gcs_log call
Policy(i) ==
    /\ pc[i] = "policy"
    /\ IF IsRootLevel(event[i].name)
       THEN \/ /\ obj_present[i]
               /\ obj_present' = [obj_present EXCEPT ![i] = FALSE]
               /\ Called(i, "policy.delete", "ok")
               /\ CallGcsLog(i, RootEntry(i), "policy_return")
               /\ UNCHANGED <<storeVars, artifacts, event, verdict, file_deleted>>
            \* blob.delete() raises: nothing catches it up to the framework
            \/ /\ Called(i, "policy.delete", "raised")
               /\ pc' = [pc EXCEPT ![i] = "raised"]
               /\ UNCHANGED <<storeVars, obj_present, artifacts, event, verdict,
                              file_deleted, logVars, trace>>
       ELSE /\ file_deleted' = [file_deleted EXCEPT ![i] = "False"]
            /\ pc' = [pc EXCEPT ![i] = "validate"]
            /\ UNCHANGED <<storeVars, obj_present, artifacts, event, verdict, calls,
                           logVars, trace>>

\* a handler that ignores file_deleted and goes on to the validation
PolicyReturnContinues(i) ==
    /\ pc[i] = "policy_return"
    /\ file_deleted' = [file_deleted EXCEPT ![i] = "True"]
    /\ pc' = [pc EXCEPT ![i] = "validate"]
    /\ UNCHANGED <<storeVars, obj_present, artifacts, event, verdict, calls, logVars, trace>>

\* `return True`, then `if file_deleted: return`
PolicyReturn(i) ==
    /\ pc[i] = "policy_return"
    /\ file_deleted' = [file_deleted EXCEPT ![i] = "True"]
    /\ pc' = [pc EXCEPT ![i] = "done"]
    /\ UNCHANGED <<storeVars, obj_present, artifacts, event, verdict, calls, logVars, trace>>

\* `except Exception as e: logger.exception(...)` around validate_file
ValidateRaised(i) ==
    /\ trace' = [trace EXCEPT ![i] = @ \cup {"Error validating file"}]
    /\ pc' = [pc EXCEPT ![i] = "stt"]

\* validate_file: blob.download_to_filename(tmp_path)
ValidateDownload(i) ==
    /\ pc[i] = "validate"
    /\ \/ /\ obj_present[i]
          /\ Called(i, "validate.download", "ok")
          /\ pc' = [pc EXCEPT ![i] = "validate_helper"]
          /\ UNCHANGED trace
       \/ /\ Called(i, "validate.download", "raised")
          /\ ValidateRaised(i)
    /\ UNCHANGED <<storeVars, obj_present, artifacts, event, verdict, file_deleted, logVars>>

\* validate_file: valid, message = validate_file_helper(tmp_path, file_name)
ValidateHelper(i) ==
    /\ pc[i] = "validate_helper"
    /\ \E o \in ProbeOutcomes :
          LET r == validate_file_helper(TRUE, event[i].name, o)
          IN  IF r.raised
              THEN /\ Called(i, "validate.helper", "raised")
                   /\ ValidateRaised(i)
                   /\ UNCHANGED verdict
              ELSE /\ Called(i, "validate.helper", "ok")
                   /\ verdict' = [verdict EXCEPT ![i] = <<r.valid, r.message>>]
                   /\ pc' = [pc EXCEPT ![i] = "validate_verdict"]
                   /\ UNCHANGED trace
    /\ UNCHANGED <<storeVars, obj_present, artifacts, event, file_deleted, logVars>>

\* the verdict test inverted
VerdictIsValidInverted(v) == ~v[1]

\* `if valid:` on the tuple validate_file_helper returned
VerdictIsValid(v) == v[1]

\* validate_file: `if valid: ... else: blob.delete(); gcs_log(..., severity="ERROR")`
ValidateVerdict(i) ==
    /\ pc[i] = "validate_verdict"
    /\ IF VerdictIsValid(verdict[i])
       THEN /\ pc' = [pc EXCEPT ![i] = "stt"]
            /\ UNCHANGED <<storeVars, pipeVars, logVars, trace>>
       ELSE \/ /\ obj_present[i]
               /\ obj_present' = [obj_present EXCEPT ![i] = FALSE]
               /\ Called(i, "validate.delete", "ok")
               /\ CallGcsLog(i, InvalidEntry(i, verdict[i][2]), "stt")
               /\ UNCHANGED <<storeVars, artifacts, event, verdict, file_deleted>>
            \/ /\ Called(i, "validate.delete", "raised")
               /\ ValidateRaised(i)
               /\ UNCHANGED <<storeVars, obj_present, artifacts, event, verdict,
                              file_deleted, logVars>>

\* an extension test that lets every file with an extension through
IsAudioLoose(file_name) == get_file_extension(file_name) # <<>>

\* the extension test of speech_to_text
IsAudio(file_name) == get_file_extension(file_name) \in AudioExts

\* an except branch that swallows the failure without the audit entry
SttFailedSilently(i, e) ==
    /\ pc' = [pc EXCEPT ![i] = "done"]
    /\ UNCHANGED <<logVars, trace>>

\* the except branch of speech_to_text
SttFailed(i, e) == CallGcsLog(i, SttFailedEntry(i, e), "done")

\* speech_to_text: the extension test and transcribe_gcs(gcs_uri)
SpeechToText(i) ==
    /\ pc[i] = "stt"
    /\ IF ~IsAudio(event[i].name)
       THEN /\ pc' = [pc EXCEPT ![i] = "done"]
            /\ UNCHANGED <<storeVars, pipeVars, logVars, trace>>
       ELSE \/ /\ obj_present[i]
               /\ Called(i, "stt.recognize", "ok")
               /\ pc' = [pc EXCEPT ![i] = "stt_upload"]
               /\ UNCHANGED <<storeVars, obj_present, artifacts, event, verdict,
                              file_deleted, logVars, trace>>
            \/ /\ Called(i, "stt.recognize", "raised")
               /\ SttFailed(i, "recognize")
               /\ UNCHANGED <<storeVars, obj_present, artifacts, event, verdict,
                              file_deleted>>

\* speech_to_text: dest_blob.upload_from_filename(tmp_path), then the success entry
SttUpload(i) ==
    /\ pc[i] = "stt_upload"
    /\ \/ /\ Called(i, "stt.upload", "ok")
          /\ IF processed_blob_name(event[i].name) = LogPath
             THEN /\ log_content' = <<TranscriptOf(i)>>
                  /\ log_gen' = log_gen + 1
                  /\ UNCHANGED <<artifacts, committed, accepted>>
             ELSE /\ artifacts' = artifacts \cup {processed_blob_name(event[i].name)}
                  /\ UNCHANGED storeVars
          /\ CallGcsLog(i, TranscribedEntry(i), "done")
          /\ UNCHANGED <<obj_present, event, verdict, file_deleted>>
       \/ /\ Called(i, "stt.upload", "raised")
          /\ SttFailed(i, "upload")
          /\ UNCHANGED <<storeVars, obj_present, artifacts, event, verdict, file_deleted>>

Init ==
    /\ \E g \in {0, 1} :
          /\ log_gen = g
          /\ log_content = IF g = 0 THEN <<>> ELSE <<SeedEntry>>
          /\ committed = IF g = 0 THEN <<>> ELSE <<SeedEntry>>
    /\ accepted = {}
    /\ max_retries = [i \in 1..NInv |-> DefaultMaxRetries]
    /\ pc = [i \in 1..NInv |-> "start"]
    /\ obj_present = [i \in 1..NInv |-> TRUE]
    /\ artifacts = {}
    /\ event \in [1..NInv -> Events]
    /\ verdict = [i \in 1..NInv |-> <<>>]
    /\ file_deleted = [i \in 1..NInv |-> "none"]
    /\ log_entry = [i \in 1..NInv |-> SeedEntry]
    /\ attempt = [i \in 1..NInv |-> 0]
    /\ current_generation = [i \in 1..NInv |-> 0]
    /\ local_log = [i \in 1..NInv |-> <<>>]
    /\ cond = [i \in 1..NInv |-> 0]
    /\ ret = [i \in 1..NInv |-> "done"]
    /\ log_calls = [i \in 1..NInv |-> <<>>]
    /\ calls = [i \in 1..NInv |-> {}]
    /\ trace = [i \in 1..NInv |-> {}]

Next ==
    \/ \E i \in Procs : Dispatch(i)
    \/ \E i \in Procs : Policy(i)
    \/ \E i \in Procs : PolicyReturn(i)
    \/ \E i \in Procs : ValidateDownload(i)
    \/ \E i \in Procs : ValidateHelper(i)
    \/ \E i \in Procs : ValidateVerdict(i)
    \/ \E i \in Procs : SpeechToText(i)
    \/ \E i \in Procs : SttUpload(i)
    \/ \E i \in Procs : LogExists(i)
    \/ \E i \in Procs : LogReload(i)
    \/ \E i \in Procs : LogDownload(i)
    \/ \E i \in Procs : LogUpload(i)

Spec == Init /\ [][Next]_vars

\* ---------------------------------------------------------------- append harness
\* NWriters concurrent calls gcs_log(message_w, max_retries = m) on the shared log
\* object, which is absent or holds one earlier entry

HarnessType == "harness"

InitLog ==
    /\ \E g \in {0, 1} :
          /\ log_gen = g
          /\ log_content = IF g = 0 THEN <<>> ELSE <<SeedEntry>>
          /\ committed = IF g = 0 THEN <<>> ELSE <<SeedEntry>>
    /\ accepted = {}
    /\ \E m \in 0..NWriters : max_retries = [w \in 1..NWriters |-> m]
    /\ pc = [w \in 1..NWriters |-> "call"]
    /\ obj_present = [w \in 1..NWriters |-> FALSE]
    /\ artifacts = {}
    /\ event = [w \in 1..NWriters |-> [type |-> HarnessType, name |-> <<>>]]
    /\ verdict = [w \in 1..NWriters |-> <<>>]
    /\ file_deleted = [w \in 1..NWriters |-> "none"]
    /\ log_entry = [w \in 1..NWriters |-> SeedEntry]
    /\ attempt = [w \in 1..NWriters |-> 0]
    /\ current_generation = [w \in 1..NWriters |-> 0]
    /\ local_log = [w \in 1..NWriters |-> <<>>]
    /\ cond = [w \in 1..NWriters |-> 0]
    /\ ret = [w \in 1..NWriters |-> "done"]
    /\ log_calls = [w \in 1..NWriters |-> <<>>]
    /\ calls = [w \in 1..NWriters |-> {}]
    /\ trace = [w \in 1..NWriters |-> {}]

HarnessEntry(w) == Entry(w, "INFO", "message", <<>>, "")

HarnessCall(w) ==
    /\ pc[w] = "call"
    /\ CallGcsLog(w, HarnessEntry(w), "done")
    /\ UNCHANGED <<storeVars, pipeVars>>

NextLog ==
    \/ \E w \in Procs : HarnessCall(w)
    \/ \E w \in Procs : LogExists(w)
    \/ \E w \in Procs : LogReload(w)
    \/ \E w \in Procs : LogDownload(w)
    \/ \E w \in Procs : LogUpload(w)

SpecLog == InitLog /\ [][NextLog]_vars

\* each call runs in its own invocation, which keeps running until it returns
FairSpecLog == SpecLog /\ \A w \in 1..NWriters : WF_vars(GcsLogStep(w) \/ HarnessCall(w))

\* ---------------------------------------------------------------- properties of gcs_log

InGcsLog(i) == pc[i] \in {"log_exists", "log_reload", "log_download", "log_upload"}

AllReturned == \A w \in Procs : pc[w] = "done"

\* C1: under every interleaving of concurrent gcs_log calls, and whether the log
\* object exists or is absent at the start, every accepted upload writes a log
\* that has the log it replaces as a prefix, and the log always holds exactly the
\* committed entries in commit order (no committed entry lost or reordered).
C1_NoCommittedEntryLost ==
    /\ \A u \in accepted : IsPrefix(u.before, u.after)
    /\ log_content = committed

\* C2: every accepted upload carries the generation its attempt observed as its
\* precondition, and an upload without a precondition is accepted only on an
\* absent log object (its first creation).
C2_UnconditionalOnlyOnCreation ==
    \A u \in accepted :
        /\ u.cond = u.seen
        /\ u.cond = 0 => u.gen_at_write = 0

\* C3: N concurrent calls with max_retries = N and no failure other than
\* generation mismatches: no call makes more than N attempts and, once all have
\* returned, the log holds each call's entry once, from either initial log state.
C3_AllEntriesCommitted ==
    (/\ \A w \in Procs : max_retries[w] = Cardinality(Procs)
     /\ \A w \in Procs : "unexpected" \notin trace[w])
    => /\ \A w \in Procs : attempt[w] <= Cardinality(Procs)
       /\ AllReturned =>
            \A w \in Procs : Count(HarnessEntry(w), log_content) = 1

\* C9: a gcs_log call never makes more than max_retries attempts, goes back to
\* the read step after a mismatch only while attempts remain (the attempt count
\* then grows by one), and every call eventually returns.
C9_BoundedAttemptsAndReturn ==
    /\ [](\A w \in 1..NWriters : attempt[w] <= max_retries[w])
    /\ [][\A w \in 1..NWriters :
            (pc[w] = "log_upload" /\ pc'[w] = "log_exists")
                => /\ attempt[w] < max_retries[w]
                   /\ attempt'[w] = attempt[w] + 1]_vars
    /\ <>(\A w \in 1..NWriters : pc[w] = "done")

\* a call that used up two or more attempts on mismatches alone and returned
C9_Witness ==
    \E w \in Procs :
        /\ pc[w] = "done"
        /\ max_retries[w] >= 2
        /\ trace[w] = {"mismatch"}

\* ---------------------------------------------------------------- properties of the stages

Finalized(i) == event[i].type = FinalizedType

Did(i, op, outcome) == <<op, outcome>> \in calls[i]

\* handle_new_file_or_change has returned or raised
PolicyDone(i) == file_deleted[i] # "none" \/ pc[i] = "raised"

\* validate_file has returned or raised into the handler's except
ValidationDone(i) ==
    /\ file_deleted[i] = "False"
    /\ pc[i] \notin {"validate", "validate_helper", "validate_verdict"}
    /\ ~(InGcsLog(i) /\ ret[i] = "stt")

Completed(i) == pc[i] \in {"done", "raised"}

\* the step of invocation i, whatever it is
Step(i) ==
    \/ Dispatch(i) \/ Policy(i) \/ PolicyReturn(i)
    \/ ValidateDownload(i) \/ ValidateHelper(i) \/ ValidateVerdict(i)
    \/ SpeechToText(i) \/ SttUpload(i) \/ GcsLogStep(i)

\* C4: no failure of a storage or service operation inside a stage escapes
\* analyze_discovery_material_ce: the handler never ends by raising.
C4_NoFailureEscapes == \A i \in Procs : pc[i] # "raised"

\* C5: once an invocation has completed, every object it deleted (in the
\* folder-policy stage or the validation stage) has its entry committed to the
\* log object, whatever the outcome of the gcs_log call after the delete.
C5_EveryDeletionLogged ==
    \A i \in Procs :
        Completed(i) =>
            /\ Did(i, "policy.delete", "ok") => Count(RootEntry(i), committed) >= 1
            /\ Did(i, "validate.delete", "ok") =>
                    Count(InvalidEntry(i, verdict[i][2]), committed) >= 1

\* C5 as amended: every deletion is paired with one gcs_log call for the entry
\* naming the object and the reason (and there is no such call without the
\* deletion); an accepted upload writes its call's entry into the log object,
\* and an entry is never in the log unless its call had an upload accepted.
C5_DeletionPairedWithLogCall ==
    /\ \A i \in Procs :
          /\ Did(i, "policy.delete", "ok") <=> Count(RootEntry(i), log_calls[i]) = 1
          /\ Did(i, "validate.delete", "ok") <=>
                (verdict[i] # <<>>
                    /\ Count(InvalidEntry(i, verdict[i][2]), log_calls[i]) = 1)
          /\ \A e \in Range(log_calls[i]) :
                Count(e, committed) >= 1 <=>
                    \E u \in accepted : u.by = i /\ u.entry = e
    /\ \A u \in accepted : Count(u.entry, u.after) = 1

\* an invocation that deleted its invalid object and whose log call then failed
C5_Witness ==
    \E i \in Procs :
        /\ pc[i] = "done"
        /\ Did(i, "validate.delete", "ok")
        /\ "unexpected" \in trace[i]
        /\ Count(InvalidEntry(i, verdict[i][2]), committed) = 0

\* C6: a path without "/": the object is deleted, exactly one entry describing
\* the deletion is appended to the log and the stage returns True; a path with
\* "/": nothing is deleted, nothing is appended and the stage returns False.
C6_FolderPolicy ==
    \A i \in Procs :
        (Finalized(i) /\ PolicyDone(i)) =>
            IF ~HasSlash(event[i].name)
            THEN /\ ~obj_present[i]
                 /\ Count(RootEntry(i), committed) = 1
                 /\ file_deleted[i] = "True"
            ELSE /\ ~Did(i, "policy.delete", "ok")
                 /\ Count(RootEntry(i), committed) = 0
                 /\ file_deleted[i] = "False"

\* C6 as amended: a path without "/": the stage calls delete; when the delete
\* succeeds the object is gone, exactly one gcs_log call is made, for the entry
\* describing the deletion, which is committed at most once (once exactly when
\* that call had an upload accepted), and the stage returns True; when the
\* delete raises, the exception leaves the stage, the object stays and no
\* gcs_log call is made. A path with "/": no delete, no gcs_log call, False.
C6_FolderPolicyBestEffort ==
    \A i \in Procs :
        (Finalized(i) /\ PolicyDone(i)) =>
            IF ~HasSlash(event[i].name)
            THEN \/ /\ file_deleted[i] = "True"
                    /\ pc[i] = "done"
                    /\ Did(i, "policy.delete", "ok")
                    /\ ~obj_present[i]
                    /\ log_calls[i] = <<RootEntry(i)>>
                    /\ Count(RootEntry(i), committed) =
                          (IF "appended" \in trace[i] THEN 1 ELSE 0)
                 \/ /\ file_deleted[i] = "none"
                    /\ pc[i] = "raised"
                    /\ calls[i] = {<<"policy.delete", "raised">>}
                    /\ obj_present[i]
                    /\ log_calls[i] = <<>>
            ELSE /\ file_deleted[i] = "False"
                 /\ \A o \in {"ok", "raised"} : ~Did(i, "policy.delete", o)
                 /\ Count(RootEntry(i), log_calls[i]) = 0
                 /\ Count(RootEntry(i), committed) = 0

\* the policy stage deleted a root-level object, logged it and returned True
C6_Witness ==
    \E i \in Procs :
        /\ file_deleted[i] = "True"
        /\ ~obj_present[i]
        /\ Count(RootEntry(i), log_content) = 1

\* C7: an invalid verdict: the object is deleted and one ERROR entry carrying
\* the verdict message is appended; a valid verdict: the validation stage
\* deletes nothing and appends no entry.
C7_ValidationCallerContract ==
    \A i \in Procs :
        (ValidationDone(i) /\ verdict[i] # <<>>) =>
            IF ~verdict[i][1]
            THEN /\ ~obj_present[i]
                 /\ Count(InvalidEntry(i, verdict[i][2]), committed) = 1
            ELSE /\ ~Did(i, "validate.delete", "ok")
                 /\ \A e \in Range(log_calls[i]) :
                        e.kind # "Deleted corrupted or invalid file"

\* C7 as amended: an invalid verdict: the stage calls delete; when the delete
\* succeeds the object is gone and exactly one gcs_log call is made, with
\* severity ERROR and the verdict message, committed at most once; when the
\* delete raises, the handler logs the exception locally, the object stays and
\* no gcs_log call is made. A valid verdict: no delete call, no gcs_log call by
\* the validation stage.
C7_ValidationCallerBestEffort ==
    \A i \in Procs :
        (ValidationDone(i) /\ verdict[i] # <<>>) =>
            LET e == InvalidEntry(i, verdict[i][2])
                mine == {k \in 1..Len(log_calls[i]) :
                            log_calls[i][k].kind = "Deleted corrupted or invalid file"}
            IN  IF ~verdict[i][1]
                THEN \/ /\ Did(i, "validate.delete", "ok")
                        /\ ~obj_present[i]
                        /\ mine = {1}
                        /\ log_calls[i][1] = e
                        /\ e.sev = "ERROR"
                        /\ Count(e, committed) <= 1
                        /\ Count(e, committed) = 1 <=> \E u \in accepted : u.entry = e
                     \/ /\ Did(i, "validate.delete", "raised")
                        /\ ~Did(i, "validate.delete", "ok")
                        /\ obj_present[i]
                        /\ "Error validating file" \in trace[i]
                        /\ mine = {}
                ELSE /\ \A o \in {"ok", "raised"} : ~Did(i, "validate.delete", o)
                     /\ obj_present[i]
                     /\ mine = {}

\* an invalid object was deleted and its ERROR entry is in the log
C7_Witness ==
    \E i \in Procs :
        /\ ValidationDone(i)
        /\ verdict[i] # <<>>
        /\ ~verdict[i][1]
        /\ ~obj_present[i]
        /\ Count(InvalidEntry(i, verdict[i][2]), log_content) = 1

\* C8: after the invocation for a Finalized event on a path in a folder, the
\* validator returned a valid verdict for the object or the object is deleted.
C8_CertifiedOrRemoved ==
    \A i \in Procs :
        (Finalized(i) /\ HasSlash(event[i].name) /\ pc[i] = "done") =>
            \/ verdict[i] # <<>> /\ verdict[i][1]
            \/ ~obj_present[i]

SttFailure(i) == Did(i, "stt.recognize", "raised") \/ Did(i, "stt.upload", "raised")

SttEntries(i) ==
    {k \in 1..Len(log_calls[i]) :
        log_calls[i][k].kind \in {"Speech-to-text failed", "Transcribed"}}

\* C10: when the transcription call or the artifact upload fails, the object has
\* an audio extension, exactly one entry of the stage is passed to gcs_log, an
\* ERROR entry describing the failure, the stage deletes nothing (the object is
\* absent only if the validation stage deleted it), and the invocation goes on
\* to its end without raising: it is done or has a step to take.
C10_TranscriptionFailureHandled ==
    \A i \in Procs :
        SttFailure(i) =>
            /\ IsAudio(event[i].name)
            /\ Cardinality(SttEntries(i)) = 1
            /\ \A k \in SttEntries(i) :
                  /\ log_calls[i][k].sev = "ERROR"
                  /\ log_calls[i][k].kind = "Speech-to-text failed"
                  /\ log_calls[i][k].name = event[i].name
                  /\ k = Len(log_calls[i])
            /\ obj_present[i] <=> ~Did(i, "validate.delete", "ok")
            /\ pc[i] # "raised"
            /\ pc[i] = "done" \/ (InGcsLog(i) /\ ret[i] = "done" /\ ENABLED Step(i))

\* the artifact upload failed, the invocation finished and the source is kept
C10_Witness ==
    \E i \in Procs :
        /\ pc[i] = "done"
        /\ Did(i, "stt.upload", "raised")
        /\ obj_present[i]
        /\ Cardinality(SttEntries(i)) = 1

\* ---------------------------------------------------------------- properties of the dispatch

\* the lower-cased extension of the object of invocation i is none of
\* .mp3, .wav, .flac, .m4a, .ogg
NotAudioExt(i) ==
    get_file_extension(event[i].name) \notin
        {<<".", "mp3">>, <<".", "wav">>, <<".", "flac">>, <<".", "m4a">>, <<".", "ogg">>}

SttCalls(i) ==
    {c \in calls[i] : c[1] \in {"stt.recognize", "stt.upload"}}

\* C11: for an object whose lower-cased extension is not an audio one, the
\* transcription stage calls neither the transcription service nor gcs_log,
\* uploads and deletes nothing, and its step leaves the log object, the derived
\* artifacts and the triggering objects as they were.
C11_NonAudioDispatchIsNoOp ==
    /\ [](\A i \in 1..NInv : NotAudioExt(i) => (SttCalls(i) = {} /\ SttEntries(i) = {}))
    /\ [][\A i \in 1..NInv :
            (NotAudioExt(i) /\ pc[i] = "stt" /\ pc'[i] # "stt")
                => /\ pc'[i] = "done"
                   /\ UNCHANGED <<storeVars, artifacts, obj_present, log_calls, calls>>]_vars

\* the transcription stage was invoked on a valid non-audio object and returned
C11_Witness ==
    \E i \in Procs :
        /\ pc[i] = "done"
        /\ file_deleted[i] = "False"
        /\ NotAudioExt(i)
        /\ verdict[i] # <<>>
        /\ verdict[i][1]

\* C12: for an event whose type is not the finalized type the handler runs no
\* stage (no store or service call, no gcs_log call, no verdict) and its only
\* step leaves the triggering objects, the derived artifacts and the log object
\* unchanged, however many such events are handled.
C12_OtherEventIsNoOp ==
    /\ [](\A i \in 1..NInv :
            ~Finalized(i) =>
                /\ pc[i] \in {"start", "done"}
                /\ calls[i] = {}
                /\ log_calls[i] = <<>>
                /\ trace[i] = {}
                /\ verdict[i] = <<>>
                /\ file_deleted[i] = "none"
                /\ obj_present[i])
    /\ [][\A i \in 1..NInv :
            (~Finalized(i) /\ pc'[i] # pc[i])
                => /\ pc'[i] = "done"
                   /\ UNCHANGED <<storeVars, artifacts, obj_present, log_calls, calls>>]_vars

\* two events of another type were handled and nothing was touched
C12_Witness ==
    /\ \A i \in Procs : ~Finalized(i) /\ pc[i] = "done" /\ obj_present[i]
    /\ Cardinality(Procs) >= 2
    /\ artifacts = {}
    /\ log_content = committed
    /\ accepted = {}

ValidateCalls(i) ==
    {c \in calls[i] : c[1] \in {"validate.download", "validate.helper", "validate.delete"}}

\* C13: once the validation stage has found the object invalid and deleted it,
\* the transcription stage does nothing for it: no transcription-service call,
\* no artifact upload, no transcription entry passed to gcs_log.
C13_InvalidObjectNotTranscribed ==
    \A i \in Procs :
        Did(i, "validate.delete", "ok") => (SttCalls(i) = {} /\ SttEntries(i) = {})

\* C14: the policy check comes before every store or service call; validation
\* runs only after the policy check returned False; transcription runs only
\* after validation has finished; and after the policy stage deleted the object
\* there is no download, no validator call and no transcription call.
C14_StageSequencing ==
    \A i \in Procs :
        /\ pc[i] \in {"start", "policy"} => calls[i] = {}
        /\ (\/ pc[i] \in {"validate", "validate_helper", "validate_verdict"}
            \/ ValidateCalls(i) # {}
            \/ verdict[i] # <<>>) => file_deleted[i] = "False"
        /\ (\/ pc[i] \in {"stt", "stt_upload"}
            \/ SttCalls(i) # {}
            \/ SttEntries(i) # {}) => ValidationDone(i)
        /\ Did(i, "policy.delete", "ok") =>
              /\ calls[i] = {<<"policy.delete", "ok">>}
              /\ verdict[i] = <<>>
              /\ log_calls[i] = <<RootEntry(i)>>
              /\ \/ pc[i] \in {"policy_return", "done"}
                 \/ InGcsLog(i) /\ ret[i] = "policy_return"

\* one invocation ended after the policy stage deleted its object, another went
\* through the download, the validator and the transcription call
C14_Witness ==
    \E i, j \in Procs :
        /\ pc[i] = "done" /\ Did(i, "policy.delete", "ok")
        /\ pc[j] = "done" /\ Did(j, "validate.download", "ok")
        /\ Did(j, "validate.helper", "ok") /\ Did(j, "stt.recognize", "ok")

\* ---------------------------------------------------------------- more properties of gcs_log

\* C15: a call that ends after all its max_retries attempts met a generation
\* mismatch has emitted the local error record of the failed append, its entry
\* is not in the log object, and it returned without raising.
C15_ExhaustionLeavesErrorTrace ==
    \A w \in Procs :
        (/\ pc[w] = "done"
         /\ max_retries[w] >= 1
         /\ "appended" \notin trace[w]
         /\ "unexpected" \notin trace[w])
        => /\ "mismatch" \in trace[w]
           /\ "exhausted" \in trace[w]
           /\ Count(HarnessEntry(w), log_content) = 0

\* C16: an attempt that fails with anything but a generation mismatch is logged
\* locally and ends the call at once: the step returns to the caller and leaves
\* the log object alone, the call never raises, makes no further attempt and
\* has committed nothing.
C16_OtherFailureReturnsAtOnce ==
    /\ [](\A w \in 1..NWriters :
            "unexpected" \in trace[w] =>
                /\ pc[w] = "done"
                /\ attempt[w] = 0
                /\ "appended" \notin trace[w]
                /\ Count(HarnessEntry(w), committed) = 0)
    /\ [][\A w \in 1..NWriters :
            ("unexpected" \notin trace[w] /\ "unexpected" \in trace'[w])
                => /\ InGcsLog(w)
                   /\ pc'[w] = ret[w]
                   /\ UNCHANGED storeVars]_vars

\* a call hit a storage error on a later attempt, after a mismatch, and returned
C16_Witness ==
    \E w \in Procs :
        /\ pc[w] = "done"
        /\ trace[w] = {"mismatch", "unexpected"}

\* C20: the buffer an attempt uploads is what its read step got (nothing when
\* the object was absent) followed by the call's entry, once: nothing of an
\* earlier attempt's buffer is in it; an accepted conditional upload writes the
\* content of the generation it observed plus the entry; and a call's entry is
\* committed, and is in the log object, at most once.
C20_BufferRebuiltEachAttempt ==
    /\ \A w \in Procs :
          /\ pc[w] = "log_upload" =>
                /\ Len(local_log[w]) >= 1
                /\ local_log[w][Len(local_log[w])] = log_entry[w]
                /\ Count(log_entry[w], local_log[w]) = 1
                /\ current_generation[w] = 0 => local_log[w] = <<log_entry[w]>>
          /\ Count(HarnessEntry(w), committed) <= 1
          /\ Count(HarnessEntry(w), log_content) <= 1
    /\ \A u \in accepted :
          u.after = Append(IF u.seen = 0 THEN <<>> ELSE u.before, u.entry)

\* a call committed on a later attempt, after a mismatch on an earlier one
C20_Witness ==
    \E w \in Procs :
        /\ pc[w] = "done"
        /\ trace[w] = {"mismatch", "appended"}
        /\ Count(HarnessEntry(w), log_content) = 1

\* ---------------------------------------------------------------- properties of validation and transcription

IsMediaExt(i) ==
    get_file_extension(event[i].name) \in
        {<<".", "mp4">>, <<".", "mkv">>, <<".", "mp3">>, <<".", "wav">>, <<".", "m4a">>}

\* C17: for a media-kind file the validator always returns a verdict, also when
\* the probing tool times out or cannot be spawned (it never raises), and on an
\* invalid verdict the caller goes on to the delete.
C17_ProbeFailureIsInvalidVerdict ==
    \A i \in Procs :
        (/\ Finalized(i)
         /\ IsMediaExt(i)
         /\ \E o \in {"ok", "raised"} : Did(i, "validate.helper", o))
        => /\ ~Did(i, "validate.helper", "raised")
           /\ verdict[i] # <<>>

\* no store or service call of invocation i failed, but for the transcription
\* of an object that was deleted before it
NoInjectedFailure(i) ==
    /\ \A c \in calls[i] :
          c[2] = "raised" => (c[1] = "stt.recognize" /\ ~obj_present[i])
    /\ "unexpected" \notin trace[i]

\* C18: a Finalized event on a path in a folder with an audio extension,
\* uncorrupted content and no failing store or service: once the invocation is
\* done nothing was deleted, the derived .txt object was uploaded and exactly
\* one entry of the transcription stage, the success entry, was committed.
C18_ValidAudioEndToEnd ==
    \A i \in Procs :
        (/\ Finalized(i)
         /\ HasSlash(event[i].name)
         /\ ~NotAudioExt(i)
         /\ pc[i] = "done"
         /\ NoInjectedFailure(i)
         /\ verdict[i] # <<>> => verdict[i][2] # "Invalid or corrupted media")
        => /\ obj_present[i]
           /\ Did(i, "stt.upload", "ok")
           /\ \/ processed_blob_name(event[i].name) \in artifacts
              \/ processed_blob_name(event[i].name) = LogPath
           /\ log_calls[i] = <<TranscribedEntry(i)>>
           /\ Count(TranscribedEntry(i), committed) = 1

\* C19: no transcript upload goes to the path of the log object, and the log
\* object holds nothing but entries that gcs_log committed.
C19_LogWrittenOnlyByGcsLog ==
    /\ \A i \in Procs :
          Did(i, "stt.upload", "ok") => processed_blob_name(event[i].name) # LogPath
    /\ \A k \in 1..Len(log_content) : Count(log_content[k], committed) >= 1

====
